---- MODULE Spec2Model ----
(***************************************************************************)
(* The FGSM practicum notebook (src/adversarial.ipynb): the perturbation   *)
(* function fgsm_attack and the evaluation loop test(), driven once per    *)
(* epsilon.                                                                *)
(*                                                                         *)
(* Numbers.  Pixel values and epsilons are counted in units of 1/Scale     *)
(* (0.05), so the valid range [0,1] is 0..Scale and the notebook's         *)
(* epsilons 0, .05, .. .3 are 0..6.  Gradient elements are counted in      *)
(* units of 0.2; only their sign is ever used.  An accuracy               *)
(* correct/float(n) is kept as the pair <<correct, n>> and compared by     *)
(* cross-multiplication.                                                   *)
(***************************************************************************)
EXTENDS Integers, Sequences, FiniteSets, TLC

VARIABLES
    dataset,        \* the loader's dataset: a bag, pair -> multiplicity
    model,          \* the frozen classifier, as far as it has been evaluated:
                    \*   a set of <<sample, class>>
    param_grad,     \* the .grad accumulated on the model's parameters
    pc,             \* position in the driver / in test()
    epsilon,        \* test()'s argument
    remaining,      \* pairs the shuffled loader has not yet yielded (a bag)
    correct,        \* test(): correct
    adv_examples,   \* test(): adv_examples
    data, target,   \* the pair of the current iteration
    data_dot_grad,  \* data.grad: None until the backward pass
    init_pred,
    loss,           \* the loss node
    data_grad,
    perturbed_data,
    final_pred,
    final_acc,
    prev,           \* the driver's record of the previous call of test()
    \* history of the current call, for stating the claims
    steps,          \* the library calls of the current iteration, in order
    n_skipped,      \* pairs skipped for a wrong initial prediction
    n_attacked,     \* pairs passed to fgsm_attack
    n_still,        \* attacked pairs whose prediction on the perturbed sample
                    \*   equals the label
    n_fooled,       \* attacked pairs whose prediction changed
    backprop        \* the gradients the iteration's backward pass computed

vars == <<dataset, model, param_grad, pc, epsilon, remaining, correct,
          adv_examples, data, target, data_dot_grad, init_pred, loss,
          data_grad, perturbed_data, final_pred, final_acc, prev, steps,
          n_skipped, n_attacked, n_still, n_fooled, backprop>>

(* Groups of variables, for the UNCHANGED clauses *)
setup == <<dataset, prev>>
counts == <<n_skipped, n_attacked, n_still, n_fooled>>
results == <<correct, adv_examples, final_acc>>

----------------------------------------------------------------------------
(* Bounds of the model *)

MaxPairs == 6       \* pairs in the dataset
NumEps == 3         \* how many of the notebook's epsilons are tried
GradMax == 1        \* gradient elements range over -GradMax..GradMax
NumClasses == 2     \* classes the classifier distinguishes

(* Program constants *)

Scale == 20         \* 1.0 in pixel units: the epsilons step by 1/20
ExampleCap == 5     \* len(adv_examples) < 5

epsilons == <<0, 1, 2, 3, 4, 5, 6>>

None == "None"

Classes == 0 .. (NumClasses - 1)
GradVals == (0 - GradMax) .. GradMax

(* The samples the dataset is drawn from: two-pixel images whose elements  *)
(* lie in the valid range and touch both of its ends, each with a label.   *)
SamplePairs == { <<(<<10, 20>>), 0>>, <<(<<0, 10>>), 1>> }

EpsilonsTried == { epsilons[k] : k \in 1 .. NumEps }

----------------------------------------------------------------------------
(* Tensor arithmetic *)

Sign(v) == IF v < 0 THEN 0 - 1 ELSE IF v > 0 THEN 1 ELSE 0

Clamp(v) == IF v < 0 THEN 0 ELSE IF v > Scale THEN Scale ELSE v

ZeroLike(x) == [i \in DOMAIN x |-> 0]

TensorAdd(a, b) == [i \in DOMAIN a |-> a[i] + b[i]]

InRange(x) == \A i \in DOMAIN x : x[i] >= 0 /\ x[i] <= Scale

(* Bags *)

RECURSIVE BagSum(_, _)
BagSum(b, S) ==
    IF S = {} THEN 0
    ELSE LET p == CHOOSE q \in S : TRUE IN b[p] + BagSum(b, S \ {p})

BagSize(b) == BagSum(b, DOMAIN b)

----------------------------------------------------------------------------
(* The notebook's functions *)

(* model(x) in evaluation mode (model.eval()): the dropout layers are off, *)
(* so the classifier is a fixed function of its input.  The function is    *)
(* opaque: its value on a sample is chosen when the sample is first        *)
(* evaluated and is the same ever after.  Forward(x, c) holds when the     *)
(* forward pass on x predicts class c.                                     *)
(* (ForwardTraining: the forward pass had model.eval() not been called,    *)
(* dropout drawing anew on every pass.)                                    *)
ForwardTraining(x, c) == c \in Classes /\ model' = model

Forward(x, c) ==
    IF \E m \in model : m[1] = x
    THEN <<x, c>> \in model /\ model' = model
    ELSE c \in Classes /\ model' = model \cup {<<x, c>>}

(* The gradients of a loss with respect to the sample (gx) and to the      *)
(* parameters (gp), as the backward pass computes them.  They are opaque:  *)
(* any values (of the parameters' gradient only whether it is there        *)
(* matters: it is never read).                                             *)
Gradients(x) == [gx : [DOMAIN x -> GradVals], gp : 1 .. GradMax]

(* Other perturbation functions: the sign step, the sign step with a step  *)
(* size that ignores epsilon, and the sign step clamped to the valid range.*)
FgsmFormula(image, eps, grad) ==
    [i \in DOMAIN image |-> image[i] + eps * Sign(grad[i])]

FgsmIgnoringEpsilon(image, eps, grad) ==
    [i \in DOMAIN image |-> Clamp(image[i] + Sign(grad[i]))]

FgsmClamped(image, eps, grad) ==
    [i \in DOMAIN image |-> Clamp(image[i] + eps * Sign(grad[i]))]

(* fgsm_attack as the notebook has it: the body is the placeholder         *)
(* `perturbed_image = image`.                                              *)
fgsm_attack(image, eps, grad) == image

----------------------------------------------------------------------------
(* The driver's record before test() has returned anything *)
NoCall == [called |-> FALSE, eps |-> 0, acc |-> <<0, 1>>, first |-> <<>>]

(* State after the setup cell: a dataset, a model nothing is known of yet, *)
(* no parameter gradients, test() not yet called.                          *)
Init ==
    /\ dataset \in { b \in [SamplePairs -> 0 .. MaxPairs] : BagSize(b) <= MaxPairs }
    /\ model = {}
    /\ param_grad = 0
    /\ pc = "idle"
    /\ epsilon = None
    /\ remaining = dataset
    /\ correct = 0
    /\ adv_examples = <<>>
    /\ data = None /\ target = None /\ data_dot_grad = None
    /\ init_pred = None /\ loss = None /\ data_grad = None
    /\ perturbed_data = None /\ final_pred = None
    /\ final_acc = None
    /\ prev = NoCall
    /\ steps = <<>>
    /\ n_skipped = 0 /\ n_attacked = 0 /\ n_still = 0 /\ n_fooled = 0
    /\ backprop = None

(* The names an iteration binds.  They stay bound in Python when the       *)
(* iteration ends, but every one of them is assigned again before the next *)
(* iteration reads it: they are dead, and the model clears them.           *)
locals == <<data, target, data_dot_grad, init_pred, loss, data_grad,
            perturbed_data, final_pred, steps, backprop>>

ClearLocals ==
    /\ data' = None /\ target' = None /\ data_dot_grad' = None
    /\ init_pred' = None /\ loss' = None /\ data_grad' = None
    /\ perturbed_data' = None /\ final_pred' = None
    /\ steps' = <<>>
    /\ backprop' = None

(* The driver calls test(model, device, test_loader, eps) for one of the   *)
(* epsilons: correct = 0, adv_examples = [], and the loader reshuffles, so *)
(* every pair is again to come.                                            *)
Call ==
    /\ pc = "idle"
    /\ \E e \in EpsilonsTried : epsilon' = e
    /\ correct' = 0
    /\ adv_examples' = <<>>
    /\ remaining' = dataset
    /\ pc' = "for"
    /\ UNCHANGED <<setup, model, param_grad, final_acc, counts, locals>>

(* for data, target in test_loader: output = model(data);                  *)
(* init_pred = output.max(1)[1].  The loader yields any pair not yet       *)
(* yielded, as a fresh tensor (its .grad is None).                         *)
NextPair ==
    /\ pc = "for"
    /\ \E p \in DOMAIN remaining :
         /\ remaining[p] > 0
         /\ remaining' = [remaining EXCEPT ![p] = @ - 1]
         /\ data' = p[1]
         /\ target' = p[2]
         /\ \E c \in Classes : Forward(p[1], c) /\ init_pred' = c
    /\ data_dot_grad' = None
    /\ steps' = <<"forward">>
    /\ pc' = "if_init"
    /\ UNCHANGED <<setup, param_grad, epsilon, results, counts, loss,
                   data_grad, perturbed_data, final_pred, backprop>>

(* if init_pred.item() != target.item(): continue                          *)
(* (NeverWrong: the test left out.)                                        *)
NeverWrong(pred, label) == FALSE

WrongInitially(pred, label) == pred # label

Skip ==
    /\ pc = "if_init"
    /\ WrongInitially(init_pred, target)
    /\ pc' = "for"
    /\ ClearLocals
    /\ n_skipped' = n_skipped + 1
    /\ UNCHANGED <<setup, model, param_grad, epsilon, remaining, results,
                   n_attacked, n_still, n_fooled>>

(* loss = F.nll_loss(output, target) *)
Loss ==
    /\ pc = "if_init"
    /\ ~WrongInitially(init_pred, target)
    /\ loss' = [output |-> init_pred, target |-> target]
    /\ steps' = Append(steps, "nll_loss")
    /\ pc' = "zero_grad"
    /\ UNCHANGED <<setup, model, param_grad, epsilon, remaining, results,
                   counts, data, target, data_dot_grad, init_pred, data_grad,
                   perturbed_data, final_pred, backprop>>

(* model.zero_grad()  (ZeroedKeeping: the call left out.) *)
ZeroedKeeping(g) == g

Zeroed(g) == 0

ZeroGrad ==
    /\ pc = "zero_grad"
    /\ param_grad' = Zeroed(param_grad)
    /\ steps' = Append(steps, "zero_grad")
    /\ pc' = "backward"
    /\ UNCHANGED <<setup, model, epsilon, remaining, results, counts, data,
                   target, data_dot_grad, init_pred, loss, data_grad,
                   perturbed_data, final_pred, backprop>>

(* loss.backward(): computes the loss's gradients and adds them to the     *)
(* .grad of the sample (None counts as zero) and of the parameters.        *)
Backward ==
    /\ pc = "backward"
    /\ \E g \in Gradients(data) :
         /\ backprop' = g
         /\ data_dot_grad' =
              TensorAdd(IF data_dot_grad = None THEN ZeroLike(data)
                        ELSE data_dot_grad, g.gx)
         /\ param_grad' = param_grad + g.gp
    /\ steps' = Append(steps, "backward")
    /\ pc' = "attack"
    /\ UNCHANGED <<setup, model, epsilon, remaining, results, counts, data,
                   target, init_pred, loss, data_grad, perturbed_data,
                   final_pred>>

(* data_grad = data.grad.data; perturbed_data = fgsm_attack(data, epsilon, data_grad) *)
Attack ==
    /\ pc = "attack"
    /\ data_grad' = data_dot_grad
    /\ perturbed_data' = fgsm_attack(data, epsilon, data_dot_grad)
    /\ steps' = Append(steps, "fgsm_attack")
    /\ n_attacked' = n_attacked + 1
    /\ pc' = "forward2"
    /\ UNCHANGED <<setup, model, param_grad, epsilon, remaining, results,
                   n_skipped, n_still, n_fooled, data, target, data_dot_grad,
                   init_pred, loss, final_pred, backprop>>

(* output = model(perturbed_data); final_pred = output.max(1)[1] *)
Forward2 ==
    /\ pc = "forward2"
    /\ \E c \in Classes :
         /\ Forward(perturbed_data, c)
         /\ final_pred' = c
         /\ n_still' = IF c = target THEN n_still + 1 ELSE n_still
         /\ n_fooled' = IF c = target THEN n_fooled ELSE n_fooled + 1
    /\ steps' = Append(steps, "forward")
    /\ pc' = "check"
    /\ UNCHANGED <<setup, param_grad, epsilon, remaining, results, n_skipped,
                   n_attacked, data, target, data_dot_grad, init_pred, loss,
                   data_grad, perturbed_data, backprop>>

(* if final_pred.item() == target.item(): correct += 1, and the triple is  *)
(* saved when epsilon == 0 and fewer than 5 are held; else: the triple is  *)
(* saved when fewer than 5 are held.                                       *)
(* (SavesUnfooledAlways: the `epsilon == 0` test left out.)                *)
SavesUnfooledAlways(eps) == TRUE

SavesUnfooled(eps) == eps = 0

HasRoom(examples) == Len(examples) < ExampleCap

StillCorrect(pred, label) == pred = label

Check ==
    /\ pc = "check"
    /\ LET adv_ex == <<init_pred, final_pred, perturbed_data>> IN
       IF StillCorrect(final_pred, target)
       THEN /\ correct' = correct + 1
            /\ adv_examples' =
                 IF SavesUnfooled(epsilon) /\ HasRoom(adv_examples)
                 THEN Append(adv_examples, adv_ex)
                 ELSE adv_examples
       ELSE /\ correct' = correct
            /\ adv_examples' =
                 IF HasRoom(adv_examples)
                 THEN Append(adv_examples, adv_ex)
                 ELSE adv_examples
    /\ pc' = "for"
    /\ ClearLocals
    /\ UNCHANGED <<setup, model, param_grad, epsilon, remaining, final_acc,
                   counts>>

(* final_acc = correct/float(len(test_loader)); return final_acc, adv_examples. *)
(* The loader has batch_size=1, so its length is the number of pairs; a    *)
(* float division by zero raises ZeroDivisionError.                        *)
(* (LoaderLenAttackedOnly: dividing by the attacked pairs only.)           *)
LoaderLenAttackedOnly == n_attacked

LoaderLen == BagSize(dataset)

Return ==
    /\ pc = "for"
    /\ BagSize(remaining) = 0
    /\ IF LoaderLen = 0
       THEN pc' = "ZeroDivisionError" /\ final_acc' = None
       ELSE pc' = "returned" /\ final_acc' = <<correct, LoaderLen>>
    /\ UNCHANGED <<setup, model, param_grad, epsilon, remaining, correct,
                   adv_examples, counts, locals>>

(* The driver keeps what the call returned, beside the epsilon it was for  *)
(* (of the example list the record keeps the first triple, which is enough *)
(* to tell two lists apart), and test()'s frame is gone.                   *)
Record ==
    /\ pc = "returned"
    /\ prev' = [called |-> TRUE, eps |-> epsilon, acc |-> final_acc,
                first |-> IF adv_examples = <<>> THEN <<>> ELSE Head(adv_examples)]
    /\ pc' = "idle"
    /\ epsilon' = None /\ correct' = 0 /\ adv_examples' = <<>>
    /\ final_acc' = None
    /\ n_skipped' = 0 /\ n_attacked' = 0 /\ n_still' = 0 /\ n_fooled' = 0
    /\ UNCHANGED <<dataset, model, param_grad, remaining, locals>>

Next ==
    \/ Call
    \/ NextPair
    \/ Skip
    \/ Loss
    \/ ZeroGrad
    \/ Backward
    \/ Attack
    \/ Forward2
    \/ Check
    \/ Return
    \/ Record

Spec == Init /\ [][Next]_vars

----------------------------------------------------------------------------
(* Properties *)

Min(a, b) == IF a < b THEN a ELSE b

(* a/b <= c/d, for accuracies <<a, b>> and <<c, d>> with b, d > 0 *)
AccLeq(x, y) == x[1] * y[2] <= y[1] * x[2]

Attacking == pc \in {"forward2", "check"}

(* C1: fgsm_attack returns, element by element,                            *)
(* image + epsilon * sign(data_grad).                                      *)
C1_ReturnsSignStep ==
    Attacking => perturbed_data = FgsmFormula(data, epsilon, data_grad)

C3_ZeroEpsilon ==
    (pc # "idle" /\ epsilon = 0) =>
        /\ Attacking => perturbed_data = data
        /\ pc = "check" => final_pred = init_pred
        /\ pc \in {"for", "returned"} => correct = n_attacked

C3_Witness ==
    /\ pc = "returned"
    /\ epsilon = 0
    /\ n_attacked >= 2
    /\ n_skipped >= 1

(* C4: the accuracy returned is the number of pairs predicted right        *)
(* initially and on the perturbed sample, over the number of all pairs,    *)
(* the skipped ones included.                                              *)
C4_Accuracy ==
    pc = "returned" =>
        /\ final_acc = <<n_still, n_skipped + n_attacked>>
        /\ n_skipped + n_attacked = BagSize(dataset)

C4_Witness ==
    /\ pc = "returned"
    /\ n_skipped >= 1
    /\ n_still >= 1

(* What a step does with a pair predicted wrong initially, and which      *)
(* pairs a step takes past the test.                                       *)
C5_SkipStep ==
    /\ (pc = "if_init" /\ init_pred # target) =>
          /\ pc' = "for"
          /\ steps = <<"forward">>
          /\ correct' = correct
          /\ adv_examples' = adv_examples
          /\ n_attacked' = n_attacked
          /\ param_grad' = param_grad
    /\ pc' \in {"zero_grad", "backward", "attack", "forward2", "check"} =>
          init_pred' = target'

(* C5: a pair whose initial prediction differs from its label is skipped:  *)
(* nothing but the first forward pass runs for it, correct and             *)
(* adv_examples stay as they are; only pairs predicted right initially     *)
(* reach the loss, the backward pass, fgsm_attack and the second forward   *)
(* pass.                                                                   *)
C5_SkippedEntirely == [][C5_SkipStep]_vars

C5_Witness ==
    /\ pc = "for"
    /\ n_skipped >= 1
    /\ n_attacked >= 1
    /\ correct = n_attacked

(* C6 as claimed: a triple is recorded for every attacked pair, fooled or  *)
(* not, for every epsilon, until 5 are held.                               *)
C6_EveryAttackedRecorded ==
    pc = "returned" => Len(adv_examples) = Min(ExampleCap, n_attacked)

(* The pairs that qualify for recording: the fooled ones and, when        *)
(* epsilon is 0, the others too.                                           *)
Recorded == n_fooled + (IF epsilon = 0 THEN n_still ELSE 0)

C6_CheckStep ==
    pc = "check" =>
        IF (final_pred # target \/ epsilon = 0) /\ Len(adv_examples) < ExampleCap
        THEN adv_examples' =
                 Append(adv_examples, <<init_pred, final_pred, perturbed_data>>)
        ELSE adv_examples' = adv_examples

C6_RecordedCount ==
    pc \in {"for", "returned"} =>
        /\ Len(adv_examples) = Min(ExampleCap, Recorded)
        /\ Len(adv_examples) <= ExampleCap

(* C6, amended: a triple is recorded for every attacked pair that was      *)
(* fooled and, when epsilon is 0, also for every attacked pair that was    *)
(* not, in processing order, until 5 are held; never more than 5.          *)
C6_FooledOrZeroEpsilonRecorded == []C6_RecordedCount /\ [][C6_CheckStep]_vars

(* a call with epsilon = 0 that attacked more pairs than the cap holds *)
C6_Witness ==
    /\ pc = "returned"
    /\ epsilon = 0
    /\ n_attacked > ExampleCap
    /\ Len(adv_examples) = ExampleCap

(* C7: for every sample set, the empty one included, test() returns an     *)
(* accuracy in [0,1].                                                      *)
C7_ReturnsAccuracyInRange ==
    /\ pc # "ZeroDivisionError"
    /\ pc = "returned" =>
          /\ final_acc[2] > 0
          /\ 0 <= final_acc[1]
          /\ final_acc[1] <= final_acc[2]

(* C8: for a fixed model and sample set, accuracy does not increase with   *)
(* epsilon.                                                                *)
C8_NonIncreasing ==
    (pc = "returned" /\ prev.called) =>
        /\ prev.eps <= epsilon => AccLeq(final_acc, prev.acc)
        /\ epsilon <= prev.eps => AccLeq(prev.acc, final_acc)

C8_Witness ==
    /\ pc = "returned"
    /\ prev.called
    /\ prev.eps < epsilon
    /\ n_skipped >= 1
    /\ final_acc[1] >= 1

(* The steps of an attacked pair run in the order forward, zero_grad,      *)
(* backward, fgsm_attack, forward; the gradient given to fgsm_attack and   *)
(* the final prediction come from this pair alone.                         *)
StepOrder == <<"forward", "nll_loss", "zero_grad", "backward", "fgsm_attack", "forward">>

C9_OrderAndIndependence ==
    /\ Len(steps) <= Len(StepOrder)
    /\ steps = SubSeq(StepOrder, 1, Len(steps))
    /\ pc = "check" => steps = StepOrder
    /\ pc = "backward" => param_grad = 0 /\ data_dot_grad = None
    /\ pc = "attack" => data_dot_grad = backprop.gx
    /\ Attacking =>
          /\ data_grad = backprop.gx
          /\ param_grad = backprop.gp
    /\ pc = "check" => <<perturbed_data, final_pred>> \in model

C10_OrderIndependent ==
    (pc = "returned" /\ prev.called /\ prev.eps = epsilon) =>
        final_acc = prev.acc

(* two calls with the same epsilon whose example lists differ *)
C10_Witness ==
    /\ pc = "returned"
    /\ prev.called
    /\ prev.eps = epsilon
    /\ prev.first # <<>>
    /\ adv_examples # <<>>
    /\ Head(adv_examples) # prev.first

====
